---- MODULE Spec2Model ----
(***************************************************************************)
(* Toast queue (OverlayToaster) and overlay stack (useOverlayStack).       *)
(*                                                                         *)
(* OverlayToaster is a React class component: this.setState(updater) puts  *)
(* the updater on React's update queue.  Outside a batched callback the    *)
(* queue is processed at once; inside one (a React event handler, or any   *)
(* callback under a concurrent root) it is processed when the callback     *)
(* returns.  While the queue is processed, this.state is still the state   *)
(* committed before, and each updater receives the state the previous      *)
(* updater returned.                                                       *)
(***************************************************************************)
EXTENDS Integers, Sequences, FiniteSets, TLC

VARIABLES
    construction,   \* outcome of constructing the toaster: "mounted" or the error thrown
    maxToasts,      \* this.props.maxToasts: <<>> (undefined) or <<n>>
    toasts,         \* this.state.toasts, newest first
    queue,          \* React's pending state updates of the toaster
    toastId,        \* OverlayToaster.toastId
    dismissLog,     \* onDismiss invocations so far: <<[id, timeoutExpired]>>
    nextObj,        \* number of ToastOptions objects created so far
    left,           \* history: [id, timeoutExpired] of toasts dismissed from the list
    autoKeys,       \* history: keys returned by un-keyed show calls
    withCallback,   \* history: ids of the ToastOptions objects that have an onDismiss
    born,           \* history: for each entry of the list, the show call that inserted it
    last,           \* history: the last toaster call, its arguments and result
    stack,          \* OverlaysContext stack.current
    bodyOverlayOpen,\* document.body.classList has Classes.OVERLAY_OPEN
    opened,         \* history: ids opened and not closed since, in open order
    hookEnv,        \* <<>> before useOverlayStack has run, then <<[hasProvider, nodeEnv]>>
    hookReturn,     \* what useOverlayStack returned: "none", "context" or "legacy"
    consoleErrors,  \* the messages passed to console.error
    lastQuery,      \* history: the last query of the stack, if no call came after it
    pc,             \* createAsync: "idle", "domRenderer" (inside the call) or "returned"
    createArgs,     \* createAsync: <<>> or <<[props, options, nodeEnv]>> of the call
    consoleWarnings,\* the messages passed to console.warn
    container,      \* createAsync: where toasterComponentRoot was appended
    domRenderer,    \* createAsync: the renderer used
    promise,        \* createAsync: the promise returned, [state, value]
    events,         \* history: the ref callbacks and the throw of domRenderer, in order
    popupArgs,      \* getPopupKind: <<>> or <<[interactionKind, popupKind, content]>> of the call
    popupResult,    \* getPopupKind: what the call returned
    batch           \* history: the calls of the event callback in progress, or of the last one

toasterVars == <<construction, maxToasts, toasts, queue, toastId, dismissLog, nextObj, left, autoKeys,
                 withCallback, born, last>>
overlayVars == <<stack, bodyOverlayOpen, opened, hookEnv, hookReturn, consoleErrors, lastQuery>>
asyncVars == <<pc, createArgs, consoleWarnings, container, domRenderer, promise, events>>
popupVars == <<popupArgs, popupResult>>
batchVars == <<batch>>
vars == <<construction, maxToasts, toasts, queue, toastId, dismissLog, nextObj, left, autoKeys,
          withCallback, born, last, stack, bodyOverlayOpen, opened, hookEnv, hookReturn,
          consoleErrors, lastQuery, pc, createArgs, consoleWarnings, container, domRenderer,
          promise, events, popupArgs, popupResult, batch>>

\* ---------------------------------------------------------------- bounds
\* show calls in one behaviour
MaxShows == 3
\* largest configured maxToasts
MaxMaxToasts == 2
\* openOverlay is not called with more than this many entries on the stack
MaxStack == 3
\* ref callbacks fired for one createAsync call
MaxRefCalls == 2
\* toaster calls made in one event callback
MaxBatch == 3

\* ---------------------------------------------------------------- inputs
Undefined == "undefined"
UserKeys == {"a", "toast-0"}
KeyArgs == UserKeys \cup {Undefined}
\* ToastProps: the display props and whether an onDismiss callback is given
ToastPropsSet == {[message |-> "m1", onDismiss |-> TRUE],
                  [message |-> "m2", onDismiss |-> FALSE]}

\* ================================================================ toaster
\* `toast-${n}`
ToastKey(n) == "toast-" \o ToString(n)

\* a validateProps that lets a maximum of 0 through
validateProps_AllowsZero(mt) == ~(mt # <<>> /\ mt[1] < 0)

\* validateProps returns normally (TRUE) or throws (FALSE)
validateProps(mt) == ~(mt # <<>> /\ mt[1] < 1)

\* if (this.props.maxToasts)
maxToastsTruthy(mt) == mt # <<>> /\ mt[1] # 0

Keys(ts) == {ts[i].key : i \in DOMAIN ts}
Ids(ts) == {ts[i].id : i \in DOMAIN ts}

\* prevState.toasts.filter(t => ...) keeping the order
RECURSIVE Filter(_, _)
Filter(ts, key) ==
    IF ts = <<>> THEN <<>>
    ELSE IF Head(ts).key = key THEN Filter(Tail(ts), key)
         ELSE <<Head(ts)>> \o Filter(Tail(ts), key)

\* the t.onDismiss?.(timeoutExpired) calls made while filtering, in list order
RECURSIVE DismissCalls(_, _, _)
DismissCalls(ts, key, timeoutExpired) ==
    IF ts = <<>> THEN <<>>
    ELSE (IF Head(ts).key = key /\ Head(ts).onDismiss
          THEN <<[id |-> Head(ts).id, timeoutExpired |-> timeoutExpired]>>
          ELSE <<>>) \o DismissCalls(Tail(ts), key, timeoutExpired)

\* this.state.toasts.every(toast => toast.key !== key)
isNewToastKey(stateToasts, key) == \A i \in DOMAIN stateToasts : stateToasts[i].key # key

\* the three kinds of state update the toaster enqueues
ShowUpdate(options, key) ==
    [type |-> "show", options |-> options, key |-> key, timeoutExpired |-> FALSE]
DismissUpdate(key, timeoutExpired) ==
    [type |-> "dismiss", options |-> <<>>, key |-> key, timeoutExpired |-> timeoutExpired]
ClearUpdate ==
    [type |-> "clear", options |-> <<>>, key |-> Undefined, timeoutExpired |-> FALSE]

\* the updater of show putting a new toast last
showUpdater_Append(u, prev, stateToasts) ==
    IF u.key = Undefined \/ isNewToastKey(stateToasts, u.key)
    THEN prev \o <<u.options>>
    ELSE [i \in DOMAIN prev |-> IF prev[i].key = u.key THEN u.options ELSE prev[i]]

\* the updater passed to setState in show
showUpdater(u, prev, stateToasts) ==
    IF u.key = Undefined \/ isNewToastKey(stateToasts, u.key)
    THEN <<u.options>> \o prev
    ELSE [i \in DOMAIN prev |-> IF prev[i].key = u.key THEN u.options ELSE prev[i]]

\* the updater passed to setState in dismiss
dismissUpdater(u, prev) == Filter(prev, u.key)

\* One state update applied to prev (the state the previous update returned)
\* with this.state = stateToasts: the new list and the callbacks it invoked.
ApplyUpdate(u, prev, stateToasts) ==
    CASE u.type = "show" ->
            [toasts |-> showUpdater(u, prev, stateToasts), calls |-> <<>>]
      [] u.type = "dismiss" ->
            [toasts |-> dismissUpdater(u, prev),
             calls |-> DismissCalls(prev, u.key, u.timeoutExpired)]
      [] u.type = "clear" ->
            [toasts |-> <<>>, calls |-> <<>>]

\* React processing the update queue q of the component
RECURSIVE ProcessQueue(_, _, _, _)
ProcessQueue(q, prev, stateToasts, log) ==
    IF q = <<>> THEN [toasts |-> prev, log |-> log]
    ELSE LET r == ApplyUpdate(Head(q), prev, stateToasts)
         IN ProcessQueue(Tail(q), r.toasts, stateToasts, log \o r.calls)

\* A toaster m = [toasts, queue, log].  React rendering it: the queue is
\* processed and the result committed to this.state.
Flush(m) ==
    LET r == ProcessQueue(m.queue, m.toasts, m.toasts, m.log)
    IN [toasts |-> r.toasts, queue |-> <<>>, log |-> r.log]

\* this.setState(update), inside a batched callback or not
setState(m, u, batched) ==
    LET m1 == [m EXCEPT !.queue = Append(@, u)]
    IN IF batched THEN m1 ELSE Flush(m1)

\* OverlayToaster.dismiss
dismiss(m, key, timeoutExpired, batched) ==
    setState(m, DismissUpdate(key, timeoutExpired), batched)

\* dismissIfAtLimit comparing with > instead of ===
dismissIfAtLimit_PastLimit(m, mt, batched) ==
    IF Len(m.toasts) > mt[1]
    THEN dismiss(m, m.toasts[Len(m.toasts)].key, FALSE, batched)
    ELSE m

\* OverlayToaster.dismissIfAtLimit
dismissIfAtLimit(m, mt, batched) ==
    IF Len(m.toasts) = mt[1]
    THEN dismiss(m, m.toasts[Len(m.toasts)].key, FALSE, batched)
    ELSE m

\* OverlayToaster.createToastOptions: the key of the options object, with
\* the counter at n
createToastOptions(key, n) == IF key = Undefined THEN ToastKey(n) ELSE key

\* createToastOptions reading the counter without advancing it
toastIdAfter_NoIncrement(key, n) == n

\* toastId after createToastOptions: the default parameter is evaluated,
\* and the counter advanced, only when no key is passed
toastIdAfter(key, n) == IF key = Undefined THEN n + 1 ELSE n

\* OverlayToaster.show: the toaster after the call
show(m, mt, options, key, batched) ==
    LET m1 == IF maxToastsTruthy(mt) THEN dismissIfAtLimit(m, mt, batched) ELSE m
    IN setState(m1, ShowUpdate(options, key), batched)

\* the t.onDismiss?.(false) calls of clear, in list order
RECURSIVE ClearCalls(_)
ClearCalls(ts) ==
    IF ts = <<>> THEN <<>>
    ELSE (IF Head(ts).onDismiss
          THEN <<[id |-> Head(ts).id, timeoutExpired |-> FALSE]>>
          ELSE <<>>) \o ClearCalls(Tail(ts))

\* a clear whose callbacks report a timeout
clear_TimeoutFlag(m, batched) ==
    setState([m EXCEPT !.log = @ \o [i \in DOMAIN ClearCalls(m.toasts) |->
                                        [ClearCalls(m.toasts)[i] EXCEPT !.timeoutExpired = TRUE]]],
             ClearUpdate, batched)

\* OverlayToaster.clear: callbacks run at once on this.state, then setState
clear(m, batched) ==
    setState([m EXCEPT !.log = @ \o ClearCalls(m.toasts)], ClearUpdate, batched)

\* a handleClose that clears on every close event
handleClose_AnyKey(m, eventKey, batched) == clear(m, batched)

\* OverlayToaster.handleClose
handleClose(m, eventKey, batched) ==
    IF eventKey = "Escape" THEN clear(m, batched) ELSE m

Machine == [toasts |-> toasts, queue |-> queue, log |-> dismissLog]

\* the callback of the caller returns: a batched callback's updates are applied
EndOfCallback(m, batched) == IF batched THEN Flush(m) ELSE m

\* the keys a caller passes to dismiss, whether in the list or not (the
\* dismiss handlers of the rendered toasts pass every key in the list)
DismissKeys == UserKeys

\* the ToastOptions object show builds: props cloned, key added
\* (id is the identity of the object)
Options(props, key, id) ==
    [key |-> createToastOptions(key, toastId), message |-> props.message,
     onDismiss |-> props.onDismiss, id |-> id]

\* the toasts a show call evicts: at capacity, the oldest entry (and any
\* entry sharing its key)
Evicted(ts, mt) ==
    IF maxToastsTruthy(mt) /\ Len(ts) = mt[1]
    THEN {ts[i].id : i \in {j \in DOMAIN ts : ts[j].key = ts[Len(ts)].key}}
    ELSE {}

\* history: the insertions of the entries of post, the list after a call,
\* from those of pre, the list before it.  An entry of pre keeps its
\* insertion; the object n of the call has the insertion of the entry whose
\* place it took, or is inserted now; an entry found out of its earlier order
\* counts as inserted now.
RECURSIVE SlotsBorn(_, _, _, _, _)
SlotsBorn(post, pre, preBorn, n, now) ==
    IF post = <<>> THEN <<>>
    ELSE IF Head(post).id # n
    THEN IF pre = <<>>
         THEN <<now>> \o SlotsBorn(Tail(post), pre, preBorn, n, now)
         ELSE IF Head(pre).id = Head(post).id
              THEN <<Head(preBorn)>> \o
                   SlotsBorn(Tail(post), Tail(pre), Tail(preBorn), n, now)
              ELSE SlotsBorn(post, Tail(pre), Tail(preBorn), n, now)
    ELSE LET gone(i) == pre[i].id \notin Ids(Tail(post))
             taken == {i \in DOMAIN pre :
                         /\ pre[i].key = Head(post).key
                         /\ \A j \in 1..i : gone(j)}
         IN IF taken = {}
            THEN <<now>> \o SlotsBorn(Tail(post), pre, preBorn, n, now)
            ELSE LET i == CHOOSE i \in taken : \A j \in taken : i <= j
                 IN <<preBorn[i]>> \o
                    SlotsBorn(Tail(post), SubSeq(pre, i + 1, Len(pre)),
                              SubSeq(preBorn, i + 1, Len(preBorn)), n, now)

NoCall ==
    [op |-> "none", key |-> Undefined, props |-> <<>>, ret |-> Undefined, id |-> 0,
     timeoutExpired |-> FALSE, batched |-> FALSE, pre |-> <<>>, preLog |-> 0,
     preToastId |-> 0]

ConfigDomain == {<<>>} \cup {<<n>> : n \in (0 - 1)..MaxMaxToasts}

\* new OverlayToaster(props): the component constructor validates the props
\* and throws what validateProps throws
Construct(mt) == IF validateProps(mt) THEN "mounted" ELSE "TOASTER_MAX_TOASTS_INVALID"

\* the keys of the close events the overlay hands to onClose; Undefined is
\* an event that is not a keyboard event
CloseEventKeys == {"Escape", Undefined}

ToasterInit ==
    /\ maxToasts \in ConfigDomain
    /\ construction = Construct(maxToasts)
    /\ toasts = <<>>
    /\ queue = <<>>
    /\ toastId = 0
    /\ dismissLog = <<>>
    /\ nextObj = 0
    /\ left = {}
    /\ autoKeys = <<>>
    /\ withCallback = {}
    /\ born = <<>>
    /\ last = NoCall

NoQuery == [op |-> "none", id |-> Undefined, ret |-> <<>>]

OverlayInit ==
    /\ stack = <<>>
    /\ bodyOverlayOpen = FALSE
    /\ opened = <<>>
    /\ hookEnv = <<>>
    /\ hookReturn = "none"
    /\ consoleErrors = {}
    /\ lastQuery = NoQuery

\* a promise not settled
Pending == [state |-> "pending", value |-> "none"]

AsyncInit ==
    /\ pc = "idle"
    /\ createArgs = <<>>
    /\ consoleWarnings = {}
    /\ container = "none"
    /\ domRenderer = "none"
    /\ promise = Pending
    /\ events = <<>>

PopupInit ==
    /\ popupArgs = <<>>
    /\ popupResult = Undefined

\* history: a callback in which no call has been made
\* (made: the <<call, key>> the callback has made and not yet had applied)
NoBatch ==
    [calls |-> 0, preLog |-> 0, onlyNewShows |-> TRUE, onlyDismissals |-> TRUE, made |-> {}]

BatchInit == batch = NoBatch

Init == ToasterInit /\ OverlayInit /\ AsyncInit /\ PopupInit /\ BatchInit

\* toaster.show(props, key) called from a callback, batched or not
Show(props, key, batched) ==
    /\ construction = "mounted"
    /\ nextObj < MaxShows
    /\ LET id == nextObj + 1
           options == Options(props, key, id)
       IN \E m \in {EndOfCallback(show(Machine, maxToasts, options, key, batched), batched)} :
          /\ toasts' = m.toasts
          /\ queue' = m.queue
          /\ dismissLog' = m.log
          /\ toastId' = toastIdAfter(key, toastId)
          /\ nextObj' = id
          /\ left' = left \cup
                {[id |-> i, timeoutExpired |-> FALSE] : i \in Evicted(toasts, maxToasts)}
          /\ autoKeys' = IF key = Undefined THEN Append(autoKeys, options.key)
                                            ELSE autoKeys
          /\ withCallback' = IF props.onDismiss THEN withCallback \cup {id}
                                                ELSE withCallback
          /\ born' = SlotsBorn(m.toasts, toasts, born, id, id)
          /\ last' = [op |-> "show", key |-> key, props |-> props, ret |-> options.key,
                      id |-> id, timeoutExpired |-> FALSE, batched |-> batched,
                      pre |-> toasts, preLog |-> Len(dismissLog), preToastId |-> toastId]
    /\ UNCHANGED <<construction, maxToasts>>
    /\ UNCHANGED <<overlayVars, asyncVars, popupVars, batchVars>>

\* toaster.dismiss(key, timeoutExpired) called from a callback; its one
\* update is applied when the call or the callback returns
Dismiss(key, timeoutExpired) ==
    /\ construction = "mounted"
    /\ \E m \in {EndOfCallback(dismiss(Machine, key, timeoutExpired, TRUE), TRUE)} :
          /\ toasts' = m.toasts
          /\ queue' = m.queue
          /\ dismissLog' = m.log
          /\ left' = left \cup
                {[id |-> i, timeoutExpired |-> timeoutExpired] :
                    i \in Ids(toasts) \ Ids(m.toasts)}
          /\ born' = SlotsBorn(m.toasts, toasts, born, 0, nextObj + 1)
          /\ last' = [op |-> "dismiss", key |-> key, props |-> <<>>, ret |-> Undefined,
                      id |-> 0, timeoutExpired |-> timeoutExpired, batched |-> FALSE,
                      pre |-> toasts, preLog |-> Len(dismissLog), preToastId |-> toastId]
    /\ UNCHANGED <<construction, maxToasts, toastId, nextObj, autoKeys, withCallback>>
    /\ UNCHANGED <<overlayVars, asyncVars, popupVars, batchVars>>

\* getDismissHandler(toast)(timeoutExpired): the rendered toast i times out
\* (TRUE) or its close button is clicked (FALSE)
DismissHandler(i, timeoutExpired) ==
    /\ i \in DOMAIN toasts
    /\ Dismiss(toasts[i].key, timeoutExpired)

\* toaster.clear() called from a callback; its one update is applied when
\* the call or the callback returns
Clear ==
    /\ construction = "mounted"
    /\ \E m \in {EndOfCallback(clear(Machine, TRUE), TRUE)} :
          /\ toasts' = m.toasts
          /\ queue' = m.queue
          /\ dismissLog' = m.log
          /\ left' = left \cup
                {[id |-> i, timeoutExpired |-> FALSE] : i \in Ids(toasts) \ Ids(m.toasts)}
          /\ born' = SlotsBorn(m.toasts, toasts, born, 0, nextObj + 1)
          /\ last' = [op |-> "clear", key |-> Undefined, props |-> <<>>, ret |-> Undefined,
                      id |-> 0, timeoutExpired |-> FALSE, batched |-> FALSE,
                      pre |-> toasts, preLog |-> Len(dismissLog), preToastId |-> toastId]
    /\ UNCHANGED <<construction, maxToasts, toastId, nextObj, autoKeys, withCallback>>
    /\ UNCHANGED <<overlayVars, asyncVars, popupVars, batchVars>>

\* Overlay2 calls onClose = handleClose with a close event whose key is
\* eventKey
HandleClose(eventKey) ==
    /\ construction = "mounted"
    /\ \E m \in {EndOfCallback(handleClose(Machine, eventKey, TRUE), TRUE)} :
          /\ toasts' = m.toasts
          /\ queue' = m.queue
          /\ dismissLog' = m.log
          /\ left' = left \cup
                {[id |-> i, timeoutExpired |-> FALSE] : i \in Ids(toasts) \ Ids(m.toasts)}
          /\ born' = SlotsBorn(m.toasts, toasts, born, 0, nextObj + 1)
          /\ last' = [op |-> "handleClose", key |-> eventKey, props |-> <<>>,
                      ret |-> Undefined, id |-> 0, timeoutExpired |-> FALSE,
                      batched |-> FALSE, pre |-> toasts, preLog |-> Len(dismissLog),
                      preToastId |-> toastId]
    /\ UNCHANGED <<construction, maxToasts, toastId, nextObj, autoKeys, withCallback>>
    /\ UNCHANGED <<overlayVars, asyncVars, popupVars, batchVars>>

ShowCall == \E props \in ToastPropsSet, key \in KeyArgs, batched \in BOOLEAN :
                Show(props, key, batched)
DismissCall == \E key \in DismissKeys, timeoutExpired \in BOOLEAN :
                Dismiss(key, timeoutExpired)
DismissHandlerCall == \E i \in DOMAIN toasts, timeoutExpired \in BOOLEAN :
                DismissHandler(i, timeoutExpired)
HandleCloseCall == \E eventKey \in CloseEventKeys : HandleClose(eventKey)

Next == ShowCall \/ DismissCall \/ DismissHandlerCall \/ Clear \/ HandleCloseCall

Spec == Init /\ [][Next]_vars

\* ================================================================ toaster, batched
\* Several toaster calls made before React applies the queued updates (one
\* event callback, or callbacks that run before the scheduled render): each
\* setState is queued, this.state stays the list of the last render.

\* history: the callback the next call belongs to
CurrentBatch == IF queue = <<>> THEN [NoBatch EXCEPT !.preLog = Len(dismissLog)] ELSE batch

\* toaster.show(props, key) with the updates left in the queue
BatchShow(props, key) ==
    /\ construction = "mounted"
    /\ nextObj < MaxShows
    /\ CurrentBatch.calls < MaxBatch
    /\ LET id == nextObj + 1
           options == Options(props, key, id)
       IN \E m \in {show(Machine, maxToasts, options, key, TRUE)} :
          /\ toasts' = m.toasts
          /\ queue' = m.queue
          /\ dismissLog' = m.log
          /\ toastId' = toastIdAfter(key, toastId)
          /\ nextObj' = id
          /\ batch' = [CurrentBatch EXCEPT
                          !.calls = @ + 1,
                          !.onlyDismissals = FALSE,
                          !.onlyNewShows = @ /\ (\/ key = Undefined
                                                 \/ /\ key \notin Keys(toasts)
                                                    /\ <<"show", key>> \notin CurrentBatch.made),
                          !.made = @ \cup {<<"show", options.key>>}]
    /\ UNCHANGED <<construction, maxToasts, left, autoKeys, withCallback, born, last>>
    /\ UNCHANGED <<overlayVars, asyncVars, popupVars>>

\* the toaster m after a call that shows no toast, its updates left in the
\* queue; history: onlyDismissals stays while the callback makes each of
\* dismiss(k), the timeout handler of k and clear() at most once, for one k
BatchDismissal(m, call, key) ==
    /\ construction = "mounted"
    /\ CurrentBatch.calls < MaxBatch
    /\ toasts' = m.toasts
    /\ queue' = m.queue
    /\ dismissLog' = m.log
    /\ batch' = [CurrentBatch EXCEPT
                    !.calls = @ + 1,
                    !.onlyNewShows = FALSE,
                    !.onlyDismissals =
                        /\ @
                        /\ <<call, key>> \notin CurrentBatch.made
                        /\ \A c \in CurrentBatch.made :
                              c[2] = key \/ c[2] = Undefined \/ key = Undefined,
                    !.made = @ \cup {<<call, key>>}]
    /\ UNCHANGED <<construction, maxToasts, toastId, nextObj, left, autoKeys, withCallback,
                   born, last>>
    /\ UNCHANGED <<overlayVars, asyncVars, popupVars>>

\* toaster.dismiss(key)
BatchDismiss(key) == BatchDismissal(dismiss(Machine, key, FALSE, TRUE), "dismiss", key)

\* the timeout of the rendered toast i expires: getDismissHandler(toast)(true)
BatchDismissHandler(i) ==
    /\ i \in DOMAIN toasts
    /\ BatchDismissal(dismiss(Machine, toasts[i].key, TRUE, TRUE), "handler", toasts[i].key)

\* toaster.clear()
BatchClear == BatchDismissal(clear(Machine, TRUE), "clear", Undefined)

\* React applies the queued updates and renders
EndOfBatch ==
    /\ queue # <<>>
    /\ \E m \in {Flush(Machine)} :
          /\ toasts' = m.toasts
          /\ queue' = m.queue
          /\ dismissLog' = m.log
    /\ batch' = [batch EXCEPT !.made = {}]
    /\ UNCHANGED <<construction, maxToasts, toastId, nextObj, left, autoKeys, withCallback,
                   born, last>>
    /\ UNCHANGED <<overlayVars, asyncVars, popupVars>>

BatchShowCall == \E props \in ToastPropsSet, key \in KeyArgs : BatchShow(props, key)
BatchDismissCall == \E key \in DismissKeys : BatchDismiss(key)
BatchDismissHandlerCall == \E i \in DOMAIN toasts : BatchDismissHandler(i)

BatchNext ==
    \/ BatchShowCall
    \/ BatchDismissCall
    \/ BatchDismissHandlerCall
    \/ BatchClear
    \/ EndOfBatch

BatchSpec == Init /\ [][BatchNext]_vars

\* ================================================================ overlay stack
OverlayIds == {"o1", "o2"}
\* OverlayInstance: id and the props the stack reads
Overlays == [id : OverlayIds, usePortal : BOOLEAN, hasBackdrop : BOOLEAN]

\* stack.current.findIndex(o => o.id === overlay.id): 0 stands for -1
findIndex(s, id) ==
    IF \E i \in DOMAIN s : s[i].id = id
    THEN CHOOSE i \in DOMAIN s : s[i].id = id /\ \A j \in 1..(i - 1) : s[j].id # id
    ELSE 0

\* stack.current.splice(index, 1)
splice(s, index) == SubSeq(s, 1, index - 1) \o SubSeq(s, index + 1, Len(s))

\* openOverlay: the stack and the body class after the call
openOverlay(s, flag, overlay) ==
    [stack |-> Append(s, overlay),
     bodyOverlayOpen |-> IF overlay.usePortal /\ overlay.hasBackdrop THEN TRUE ELSE flag]

\* closeOverlay: the stack and the body class after the call
closeOverlay(s, flag, overlay) ==
    LET otherOverlaysWithBackdrop ==
            SelectSeq(s, LAMBDA o : o.usePortal /\ o.hasBackdrop /\ o.id # overlay.id)
        index == findIndex(s, overlay.id)
    IN [stack |-> IF index > 0 THEN splice(s, index) ELSE s,
        bodyOverlayOpen |-> IF Len(otherOverlaysWithBackdrop) = 0 THEN FALSE ELSE flag]

\* resetStack: the stack and the body class after the call
resetStack(s, flag) == [stack |-> <<>>, bodyOverlayOpen |-> flag]

\* a getLastOpened that returns the first overlay opened
getLastOpened_First(s) == IF s = <<>> THEN <<>> ELSE <<s[1]>>

\* stack.current.at(-1): <<>> stands for undefined, <<o>> for the overlay o
getLastOpened(s) == IF s = <<>> THEN <<>> ELSE <<s[Len(s)]>>

\* a getThisOverlayAndDescendants that leaves the overlay itself out
getThisOverlayAndDescendants_AfterIndex(s, overlay) ==
    LET index == findIndex(s, overlay.id)
    IN IF index = 0 THEN <<>> ELSE SubSeq(s, index + 1, Len(s))

\* getThisOverlayAndDescendants: stack.current.slice(index), [] when not found
getThisOverlayAndDescendants(s, overlay) ==
    LET index == findIndex(s, overlay.id)
    IN IF index = 0 THEN <<>> ELSE SubSeq(s, index, Len(s))

\* process.env.NODE_ENV of the build
NodeEnvs == {"production", "development", "test"}

\* isNodeEnv(env): NODE_ENV is env
isNodeEnv(nodeEnv, env) == nodeEnv = env

\* useOverlayStack(): the operations it returns and what it logs
useOverlayStack(hasProvider, nodeEnv) ==
    IF ~hasProvider
    THEN [returned |-> "legacy",
          logged |-> IF isNodeEnv(nodeEnv, "development")
                     THEN {"OVERLAY2_REQUIRES_OVERLAY_PROVDER"} ELSE {}]
    ELSE [returned |-> "context", logged |-> {}]

\* history: the ids opened and not closed since, each once, in open order
OpenedAfterOpen(h, id) == IF \E i \in DOMAIN h : h[i] = id THEN h ELSE Append(h, id)
OpenedAfterClose(h, id) == SelectSeq(h, LAMBDA x : x # id)

\* a component calling the hook renders, with or without an OverlaysProvider
\* above it, in a build with NODE_ENV = nodeEnv; both stay as they are from
\* the first render on
UseOverlayStack(hasProvider, nodeEnv) ==
    /\ hookEnv \in {<<>>, <<[hasProvider |-> hasProvider, nodeEnv |-> nodeEnv]>>}
    /\ hookEnv' = <<[hasProvider |-> hasProvider, nodeEnv |-> nodeEnv]>>
    /\ \E r \in {useOverlayStack(hasProvider, nodeEnv)} :
          /\ hookReturn' = r.returned
          /\ consoleErrors' = consoleErrors \cup r.logged
    /\ UNCHANGED <<stack, bodyOverlayOpen, opened, lastQuery>>
    /\ UNCHANGED <<toasterVars, asyncVars, popupVars, batchVars>>

OpenOverlay(overlay) ==
    /\ hookReturn = "context"
    /\ Len(stack) < MaxStack
    /\ LET r == openOverlay(stack, bodyOverlayOpen, overlay)
       IN /\ stack' = r.stack
          /\ bodyOverlayOpen' = r.bodyOverlayOpen
    /\ opened' = OpenedAfterOpen(opened, overlay.id)
    /\ lastQuery' = NoQuery
    /\ UNCHANGED <<hookEnv, hookReturn, consoleErrors>>
    /\ UNCHANGED <<toasterVars, asyncVars, popupVars, batchVars>>

CloseOverlay(overlay) ==
    /\ hookReturn = "context"
    /\ LET r == closeOverlay(stack, bodyOverlayOpen, overlay)
       IN /\ stack' = r.stack
          /\ bodyOverlayOpen' = r.bodyOverlayOpen
    /\ opened' = OpenedAfterClose(opened, overlay.id)
    /\ lastQuery' = NoQuery
    /\ UNCHANGED <<hookEnv, hookReturn, consoleErrors>>
    /\ UNCHANGED <<toasterVars, asyncVars, popupVars, batchVars>>

ResetStack ==
    /\ hookReturn = "context"
    /\ LET r == resetStack(stack, bodyOverlayOpen)
       IN /\ stack' = r.stack
          /\ bodyOverlayOpen' = r.bodyOverlayOpen
    /\ opened' = <<>>
    /\ lastQuery' = NoQuery
    /\ UNCHANGED <<hookEnv, hookReturn, consoleErrors>>
    /\ UNCHANGED <<toasterVars, asyncVars, popupVars, batchVars>>

\* getLastOpened() called
GetLastOpened ==
    /\ hookReturn = "context"
    /\ lastQuery' = [op |-> "getLastOpened", id |-> Undefined, ret |-> getLastOpened(stack)]
    /\ UNCHANGED <<stack, bodyOverlayOpen, opened, hookEnv, hookReturn, consoleErrors>>
    /\ UNCHANGED <<toasterVars, asyncVars, popupVars, batchVars>>

\* getThisOverlayAndDescendants(overlay) called
GetThisOverlayAndDescendants(overlay) ==
    /\ hookReturn = "context"
    /\ lastQuery' = [op |-> "getThisOverlayAndDescendants", id |-> overlay.id,
                     ret |-> getThisOverlayAndDescendants(stack, overlay)]
    /\ UNCHANGED <<stack, bodyOverlayOpen, opened, hookEnv, hookReturn, consoleErrors>>
    /\ UNCHANGED <<toasterVars, asyncVars, popupVars, batchVars>>

UseOverlayStackCall == \E hasProvider \in BOOLEAN, nodeEnv \in NodeEnvs :
                UseOverlayStack(hasProvider, nodeEnv)
OpenOverlayCall == \E overlay \in Overlays : OpenOverlay(overlay)
CloseOverlayCall == \E overlay \in Overlays : CloseOverlay(overlay)
GetThisOverlayAndDescendantsCall == \E overlay \in Overlays :
                GetThisOverlayAndDescendants(overlay)

OverlayNext ==
    \/ UseOverlayStackCall
    \/ OpenOverlayCall
    \/ CloseOverlayCall
    \/ ResetStack
    \/ GetLastOpened
    \/ GetThisOverlayAndDescendantsCall

\* the overlay stack of an application whose toaster has the default props
OverlayInitial == Init /\ maxToasts = <<>>

OverlaySpec == OverlayInitial /\ [][OverlayNext]_vars

\* ================================================================ createAsync
\* props?: OverlayToasterProps: <<>> is no props, usePortal may be left out
PropsArgs == {<<>>} \cup {<<[usePortal |-> u]>> : u \in {Undefined, "true", "false"}}

\* options?: OverlayToasterCreateOptions: <<>> is no options
OptionsArgs ==
    {<<>>} \cup {<<[container |-> c, domRenderer |-> d]>> :
                    c \in {Undefined, "element"}, d \in {Undefined, "custom"}}

\* what the ref callback is called with: null or the OverlayToaster instance
RefValues == {"null", "toaster"}

\* resolve and reject of the promise: a settled promise stays as it is
resolve(p, value) ==
    IF p.state = "pending" THEN [state |-> "resolved", value |-> value] ELSE p
reject(p, error) ==
    IF p.state = "pending" THEN [state |-> "rejected", value |-> error] ELSE p

\* a handleRef that does not reject on null
handleRef_IgnoresNull(p, ref) == IF ref = "null" THEN p ELSE resolve(p, ref)

\* handleRef in createAsync
handleRef(p, ref) ==
    IF ref = "null" THEN reject(p, "TOASTER_CREATE_ASYNC_NULL") ELSE resolve(p, ref)

\* the console.warn of createAsync
createAsyncWarning(props, nodeEnv) ==
    IF props # <<>> /\ props[1].usePortal # Undefined /\ ~isNodeEnv(nodeEnv, "production")
    THEN {"TOASTER_WARN_INLINE"} ELSE {}

\* options?.container ?? document.body
containerOf(options) ==
    IF options # <<>> /\ options[1].container # Undefined
    THEN options[1].container ELSE "document.body"

\* options?.domRenderer ?? ReactDOM.render
domRendererOf(options) ==
    IF options # <<>> /\ options[1].domRenderer # Undefined
    THEN options[1].domRenderer ELSE "ReactDOM.render"

\* the ref callbacks fired so far
RefCalls == SelectSeq(events, LAMBDA e : e \in RefValues)

\* OverlayToaster.createAsync(props, options) up to the call of domRenderer
\* in the promise's executor
CreateAsync(props, options, nodeEnv) ==
    /\ pc = "idle"
    /\ pc' = "domRenderer"
    /\ createArgs' = <<[props |-> props, options |-> options, nodeEnv |-> nodeEnv]>>
    /\ consoleWarnings' = consoleWarnings \cup createAsyncWarning(props, nodeEnv)
    /\ container' = containerOf(options)
    /\ domRenderer' = domRendererOf(options)
    /\ promise' = Pending
    /\ events' = <<>>
    /\ UNCHANGED <<toasterVars, overlayVars, popupVars, batchVars>>

\* React calls the ref callback, inside the domRenderer call (a synchronous
\* render) or after it (a scheduled render, an unmount)
RefCallback(ref) ==
    /\ pc \in {"domRenderer", "returned"}
    /\ Len(RefCalls) < MaxRefCalls
    /\ promise' = handleRef(promise, ref)
    /\ events' = Append(events, ref)
    /\ UNCHANGED <<pc, createArgs, consoleWarnings, container, domRenderer>>
    /\ UNCHANGED <<toasterVars, overlayVars, popupVars, batchVars>>

\* the domRenderer call returns; createAsync returns the promise
DomRendererReturns ==
    /\ pc = "domRenderer"
    /\ pc' = "returned"
    /\ UNCHANGED <<createArgs, consoleWarnings, container, domRenderer, promise, events>>
    /\ UNCHANGED <<toasterVars, overlayVars, popupVars, batchVars>>

\* the domRenderer call throws: catch (error) { reject(error) }
DomRendererThrows ==
    /\ pc = "domRenderer"
    /\ pc' = "returned"
    /\ promise' = reject(promise, "error")
    /\ events' = Append(events, "throw")
    /\ UNCHANGED <<createArgs, consoleWarnings, container, domRenderer>>
    /\ UNCHANGED <<toasterVars, overlayVars, popupVars, batchVars>>

CreateAsyncCall == \E props \in PropsArgs, options \in OptionsArgs, nodeEnv \in NodeEnvs :
                CreateAsync(props, options, nodeEnv)
RefCallbackCall == \E ref \in RefValues : RefCallback(ref)

CreateAsyncNext ==
    \/ CreateAsyncCall
    \/ RefCallbackCall
    \/ DomRendererReturns
    \/ DomRendererThrows

\* one createAsync call of an application whose toaster has the default props
CreateAsyncSpec == OverlayInitial /\ [][CreateAsyncNext]_vars

\* ================================================================ getPopupKind
\* PopoverProps.interactionKind: a PopoverInteractionKind or left out
InteractionKinds == {Undefined, "CLICK", "CLICK_TARGET_ONLY", "HOVER", "HOVER_TARGET_ONLY"}

\* PopoverProps.popupKind: a PopupKind, null or left out
PopupKinds == {Undefined, "null", "menu", "listbox", "tree", "grid", "dialog"}

\* PopoverProps.content: left out, a string, or an element of the named type
Contents == {Undefined, "text", "Menu", "div"}

\* Utils.isElementOfType(content, Menu)
isElementOfType(content, type) == content = type

\* getPopupKind({ interactionKind, popupKind, content })
getPopupKind(interactionKind, popupKind, content) ==
    IF interactionKind = "HOVER_TARGET_ONLY" THEN Undefined
    ELSE IF popupKind \notin {Undefined, "null"} THEN popupKind
    ELSE IF isElementOfType(content, "Menu") THEN "menu" ELSE Undefined

\* a popover target asks for its aria-haspopup value
GetPopupKind(interactionKind, popupKind, content) ==
    /\ popupArgs' = <<[interactionKind |-> interactionKind, popupKind |-> popupKind,
                       content |-> content]>>
    /\ popupResult' = getPopupKind(interactionKind, popupKind, content)
    /\ UNCHANGED <<toasterVars, overlayVars, asyncVars, batchVars>>

GetPopupKindCall == \E interactionKind \in InteractionKinds, popupKind \in PopupKinds,
                       content \in Contents :
                GetPopupKind(interactionKind, popupKind, content)

PopupNext == GetPopupKindCall

\* getPopupKind calls of an application whose toaster has the default props
PopupSpec == OverlayInitial /\ [][PopupNext]_vars

\* ================================================================ claims
\* the ToastOptions object the last show call built
LastOptions ==
    [key |-> last.ret, message |-> last.props.message,
     onDismiss |-> last.props.onDismiss, id |-> last.id]

\* the onDismiss invocations of the object id, in order
CallsOf(id) == SelectSeq(dismissLog, LAMBDA c : c.id = id)

\* the onDismiss invocations made by the last call
LastCalls == SubSeq(dismissLog, last.preLog + 1, Len(dismissLog))

\* the last call was a show of a toast whose key was not in the list
LastShowIsNew ==
    /\ last.op = "show"
    /\ (last.key = Undefined \/ last.key \notin Keys(last.pre))

\* the last call was a show made with the list at capacity
LastShowAtCapacity ==
    /\ last.op = "show"
    /\ maxToasts # <<>>
    /\ Len(last.pre) = maxToasts[1]

C2_NoDuplicateKeys ==
    \A i, j \in DOMAIN toasts : i # j => toasts[i].key # toasts[j].key

\* C3: a toast dismissed from the list (dismiss, dismiss handler, clear,
\* eviction) has its onDismiss invoked exactly once, with the timeoutExpired
\* of that dismissal; no other onDismiss invocation is ever made.
C3_DismissedExactlyOnce ==
    \A id \in 1..nextObj :
        LET how == {l \in left : l.id = id}
        IN /\ Cardinality(how) <= 1
           /\ (how = {} \/ id \notin withCallback) => CallsOf(id) = <<>>
           /\ \A l \in how :
                id \in withCallback =>
                    CallsOf(id) = <<[id |-> id, timeoutExpired |-> l.timeoutExpired]>>

\* C7: a show of a new toast with the list at capacity evicts the last
\* entry only, invokes its onDismiss with false, puts the new toast first
\* and keeps the other entries in order.
C7_EvictsOldestOnly ==
    (LastShowIsNew /\ LastShowAtCapacity) =>
        LET oldest == last.pre[Len(last.pre)]
        IN /\ toasts = <<LastOptions>> \o SubSeq(last.pre, 1, Len(last.pre) - 1)
           /\ LastCalls = IF oldest.onDismiss
                          THEN <<[id |-> oldest.id, timeoutExpired |-> FALSE]>>
                          ELSE <<>>

\* C8: after a show call the list holds an entry with the returned key and
\* the props just passed.
C8_ShownToastInList ==
    last.op = "show" =>
        \E i \in DOMAIN toasts :
            /\ toasts[i].key = last.ret
            /\ toasts[i].message = last.props.message
            /\ toasts[i].onDismiss = last.props.onDismiss

\* C9: a show with a key already in the list keeps the length and the
\* sequence of keys, and leaves every entry with another key unchanged.
C9_UpdateInPlace ==
    (last.op = "show" /\ last.key \in Keys(last.pre)) =>
        /\ Len(toasts) = Len(last.pre)
        /\ \A i \in DOMAIN toasts :
              /\ toasts[i].key = last.pre[i].key
              /\ last.pre[i].key # last.key => toasts[i] = last.pre[i]

\* C10: show returns the key passed; without one it returns "toast-N" for
\* the counter value N, advances the counter by one, and a keyed show leaves
\* the counter alone; the keys of un-keyed shows are pairwise different.
C10_ReturnedKey ==
    /\ last.op = "show" =>
          IF last.key = Undefined
          THEN last.ret = ToastKey(last.preToastId) /\ toastId = last.preToastId + 1
          ELSE last.ret = last.key /\ toastId = last.preToastId
    /\ \A i, j \in DOMAIN autoKeys : i # j => autoKeys[i] # autoKeys[j]
    /\ Len(autoKeys) = toastId

\* C10 witness: two un-keyed shows and then a keyed show have completed.
C10_Witness ==
    /\ Len(autoKeys) >= 2
    /\ last.op = "show"
    /\ last.key # Undefined

\* C4: the stack holds exactly the overlays opened and not closed since,
\* each once, in open order.
C4_StackIsOpenOverlays == [i \in DOMAIN stack |-> stack[i].id] = opened

\* C5: the body has the OVERLAY_OPEN class iff some overlay on the stack has
\* usePortal and hasBackdrop.
C5_ScrollLockIffBackdrop ==
    bodyOverlayOpen <=>
        \E i \in DOMAIN stack : stack[i].usePortal /\ stack[i].hasBackdrop

\* C6: no two entries of the overlay stack have the same id.
C6_NoDuplicateIds ==
    \A i, j \in DOMAIN stack : i # j => stack[i].id # stack[j].id

\* C11: the list is ordered newest first: a show with a new key puts the
\* toast at the head, and of any two entries the one nearer the head was
\* inserted later, so the last entry is the oldest.
C11_NewestFirst ==
    /\ Len(born) = Len(toasts)
    /\ \A i, j \in DOMAIN born : i < j => born[i] > born[j]
    /\ LastShowIsNew => (toasts # <<>> /\ toasts[1] = LastOptions)

\* C11 witness: the list holds two entries and the older one has been
\* updated in place by a later show.
C11_Witness ==
    /\ Len(toasts) >= 2
    /\ toasts[2].id > toasts[1].id
    /\ last.op = "show"

\* the calls a clear of the list ts makes: onDismiss(false) of every entry
\* that has the callback, in list order
ClearedCalls(ts) ==
    LET withCb == SelectSeq(ts, LAMBDA t : t.onDismiss)
    IN [i \in DOMAIN withCb |-> [id |-> withCb[i].id, timeoutExpired |-> FALSE]]

\* C12: after clear() the toast list is empty and the onDismiss of every
\* toast that was in the list has been invoked with timeoutExpired = false.
C12_ClearDismissesAll ==
    last.op = "clear" =>
        /\ toasts = <<>>
        /\ \A i \in DOMAIN last.pre :
              last.pre[i].onDismiss =>
                \E c \in DOMAIN LastCalls :
                    LastCalls[c] = [id |-> last.pre[i].id, timeoutExpired |-> FALSE]
        /\ \A c \in DOMAIN LastCalls : ~LastCalls[c].timeoutExpired

\* C12 witness: a clear of a list of two toasts, one of them with onDismiss.
C12_Witness ==
    /\ last.op = "clear"
    /\ Len(last.pre) >= 2
    /\ LastCalls # <<>>

\* C13: a toaster configured with maxToasts below 1 is rejected at
\* construction with TOASTER_MAX_TOASTS_INVALID and never accepts a call; a
\* mounted toaster has no maximum or a maximum of at least 1.
C13_InvalidMaxRejected ==
    /\ (maxToasts # <<>> /\ maxToasts[1] < 1) =>
          /\ construction = "TOASTER_MAX_TOASTS_INVALID"
          /\ last.op = "none"
          /\ toasts = <<>>
    /\ construction = "mounted" => (maxToasts = <<>> \/ maxToasts[1] >= 1)

\* C13 witness: a toaster given maxToasts = 0 has been rejected.
C13_Witness ==
    /\ maxToasts = <<0>>
    /\ construction = "TOASTER_MAX_TOASTS_INVALID"

\* C18: dismiss(key, timeoutExpired) removes only the one entry with that
\* key: every other entry stays, in the same order, and no callback of
\* another entry is invoked; with no entry of that key the list is unchanged
\* and no callback is invoked.
C18_DismissRemovesOnlyThatEntry ==
    last.op = "dismiss" =>
        /\ toasts = Filter(last.pre, last.key)
        /\ Len(last.pre) - Len(toasts) <= 1
        /\ Len(LastCalls) <= 1
        /\ \A c \in DOMAIN LastCalls :
              /\ LastCalls[c].timeoutExpired = last.timeoutExpired
              /\ \E i \in DOMAIN last.pre :
                    last.pre[i].key = last.key /\ last.pre[i].id = LastCalls[c].id
        /\ last.key \notin Keys(last.pre) => (toasts = last.pre /\ LastCalls = <<>>)

\* C20: a close event clears all toasts, as clear() does, exactly when its
\* key is "Escape"; any other close event leaves the list unchanged and
\* invokes no callback.
C20_EscapeClears ==
    last.op = "handleClose" =>
        IF last.key = "Escape"
        THEN toasts = <<>> /\ LastCalls = ClearedCalls(last.pre)
        ELSE toasts = last.pre /\ LastCalls = <<>>

\* C20 witness: an Escape close event has cleared a list that held a toast
\* with onDismiss.
C20_Witness ==
    /\ last.op = "handleClose"
    /\ last.key = "Escape"
    /\ last.pre # <<>>
    /\ LastCalls # <<>>

\* C14: closeOverlay with an overlay whose id is not in the stack leaves the
\* stack and the scroll lock as they are, and getThisOverlayAndDescendants
\* with such an overlay returns the empty list.
C14_UnknownIdNoOp ==
    /\ [][\A o \in Overlays :
            (CloseOverlay(o) /\ findIndex(stack, o.id) = 0) =>
                (stack' = stack /\ bodyOverlayOpen' = bodyOverlayOpen)]_vars
    /\ []((/\ lastQuery.op = "getThisOverlayAndDescendants"
           /\ findIndex(stack, lastQuery.id) = 0) => lastQuery.ret = <<>>)

\* C15: getThisOverlayAndDescendants(o) returns the suffix of the stack that
\* starts at the entry with o's id: that entry, then every entry after it,
\* in stack order, and no entry before it.
C15_SuffixFromEntry ==
    (/\ lastQuery.op = "getThisOverlayAndDescendants"
     /\ \E i \in DOMAIN stack : stack[i].id = lastQuery.id) =>
        \E k \in DOMAIN stack :
            /\ stack[k].id = lastQuery.id
            /\ \A j \in 1..(k - 1) : stack[j].id # lastQuery.id
            /\ Len(lastQuery.ret) = Len(stack) - k + 1
            /\ \A i \in DOMAIN lastQuery.ret : lastQuery.ret[i] = stack[k + i - 1]

\* C15 witness: the query of the second of three open overlays has returned
\* two overlays.
C15_Witness ==
    /\ lastQuery.op = "getThisOverlayAndDescendants"
    /\ Len(stack) = 3
    /\ Len(lastQuery.ret) = 2
    /\ lastQuery.ret[1].id # stack[1].id

\* C16: after any openOverlay, closeOverlay and resetStack calls
\* getLastOpened returns the tail of the stack, and undefined exactly when
\* the stack is empty.
C16_LastOpenedIsTail ==
    lastQuery.op = "getLastOpened" =>
        /\ (lastQuery.ret = <<>>) <=> (stack = <<>>)
        /\ stack # <<>> => lastQuery.ret = <<stack[Len(stack)]>>

\* C16 witness: getLastOpened has returned the overlay opened last, with an
\* overlay of another id below it.
C16_Witness ==
    /\ lastQuery.op = "getLastOpened"
    /\ Len(stack) >= 2
    /\ stack[1].id # stack[Len(stack)].id
    /\ lastQuery.ret # <<>>

\* C17: without an overlays provider useOverlayStack returns the legacy
\* operations, and it logs OVERLAY2_REQUIRES_OVERLAY_PROVDER in every build
\* whose NODE_ENV is not production.
C17_NoProviderFallsBackAndLogs ==
    (hookEnv # <<>> /\ ~hookEnv[1].hasProvider) =>
        /\ hookReturn = "legacy"
        /\ hookEnv[1].nodeEnv # "production" =>
              "OVERLAY2_REQUIRES_OVERLAY_PROVDER" \in consoleErrors

\* C19 as claimed: the promise of createAsync rejects when the domRenderer
\* call has thrown or the first ref callback was null, and resolves with
\* the instance when the ref callback has fired with it and neither of the
\* two happened.
C19_RejectsWheneverRendererThrows ==
    LET thrown == \E i \in DOMAIN events : events[i] = "throw"
        firstNull == RefCalls # <<>> /\ RefCalls[1] = "null"
        mounted == \E i \in DOMAIN events : events[i] = "toaster"
    IN /\ (thrown \/ firstNull) => promise.state = "rejected"
       /\ (mounted /\ ~thrown /\ ~firstNull) =>
             promise = [state |-> "resolved", value |-> "toaster"]

\* the outcome the first event alone gives
FirstOutcome ==
    IF events = <<>> THEN Pending
    ELSE IF events[1] = "toaster" THEN [state |-> "resolved", value |-> "toaster"]
    ELSE IF events[1] = "null" THEN [state |-> "rejected", value |-> "TOASTER_CREATE_ASYNC_NULL"]
    ELSE [state |-> "rejected", value |-> "error"]

\* C19 amended: the promise of createAsync is settled by the first of the
\* ref callbacks and the throw of domRenderer, and by nothing after it: it
\* resolves with the instance if that is a ref callback with the instance,
\* rejects if it is a ref callback with null or the throw, and is pending
\* until then.
C19_FirstEventSettles == promise = FirstOutcome

\* C19 witness: the promise was resolved by the ref callback inside the
\* domRenderer call and a later ref callback with null has fired.
C19_Witness ==
    /\ pc = "returned"
    /\ Len(events) >= 2
    /\ events[1] = "toaster"
    /\ events[Len(events)] = "null"
    /\ promise.state = "resolved"

\* C21: getPopupKind returns undefined whenever interactionKind is
\* HOVER_TARGET_ONLY, whatever popupKind is; for every other interaction
\* kind it returns "menu" if the content is a Menu element and undefined if
\* it is not.
C21_MenuOrUndefined ==
    popupArgs # <<>> =>
        popupResult =
            IF popupArgs[1].interactionKind = "HOVER_TARGET_ONLY" THEN Undefined
            ELSE IF popupArgs[1].content = "Menu" THEN "menu" ELSE Undefined

\* C24: a show with a key already in the list invokes no onDismiss and
\* removes no toast, whatever the length of the list.
C24_UpdateEvictsNothing ==
    (last.op = "show" /\ last.key \in Keys(last.pre)) =>
        /\ LastCalls = <<>>
        /\ Len(toasts) >= Len(last.pre)
        /\ \A i \in DOMAIN last.pre :
              last.pre[i].key # last.key => last.pre[i].id \in Ids(toasts)

\* the onDismiss invocations made since the callback began
BatchCalls == SubSeq(dismissLog, batch.preLog + 1, Len(dismissLog))

\* C22: after the queued updates of a callback that made several show calls
\* for new toasts are applied, the list has at most maxToasts entries and no
\* two entries with the same key.
C22_BatchedShowsKeepLimit ==
    (queue = <<>> /\ batch.calls >= 2 /\ batch.onlyNewShows) =>
        /\ maxToasts # <<>> => Len(toasts) <= maxToasts[1]
        /\ \A i, j \in DOMAIN toasts : i # j => toasts[i].key # toasts[j].key

\* C23: while and after dismiss(k), the timeout handler of k and clear()
\* are called in any order before the queued updates are applied, the
\* onDismiss of a toast is invoked at most once.
C23_BatchedDismissalsCallOnce ==
    (batch.calls >= 1 /\ batch.onlyDismissals) =>
        \A c, d \in DOMAIN BatchCalls : c # d => BatchCalls[c].id # BatchCalls[d].id

====
